---- MODULE Spec2Model ----
(***************************************************************************)
(* State-machine model of scroll-snapper (src/src/scroll-snapper.ts and    *)
(* the bootstrap loop of src/src/main.ts).                                 *)
(*                                                                         *)
(* A page holds a sequence of [data-snap-slider] containers.  The          *)
(* bootstrap loop constructs one ScrollSnapper per container; afterwards   *)
(* the event loop delivers IntersectionObserver batches, button and dot    *)
(* clicks, one handler at a time.  scrollIntoView and the opacity pulse of *)
(* flashElement are outputs no code reads back (the timer of flashElement  *)
(* only restores the opacity): they are recorded in the event of the       *)
(* handler that issued them.                                               *)
(*                                                                         *)
(* Next takes every handler as one step.  NextSteps takes oberverCallback  *)
(* statement by statement (delivery, one step per loop iteration, the      *)
(* call of synchronize); no other handler runs until it has returned.      *)
(*                                                                         *)
(* An element reference is a tuple: <<k, i>> is slide i (0-based) of the   *)
(* k-th container, << >> is JavaScript's undefined.  Strings that the code *)
(* parses or compares (the --scroll-by value, data-index) are sequences of *)
(* one-character strings.                                                  *)
(***************************************************************************)
EXTENDS Integers, Sequences, FiniteSets

\* ------------------------------------------------------------------ bounds

\* direct children of one container; a page holds at most MaxSlides + 1
\* elements, its containers and their children counted together
MaxSlides == 3

\* [data-snap-slider] containers on the page
MaxContainers == 2

\* entries of one IntersectionObserver notification
MaxBatch == 2

\* ------------------------------------------------------------- JS values

Undefined == << >>

\* the result of parseInt: a number, or NaN
NaN == [nan |-> TRUE, val |-> 0]

Num(v) == [nan |-> FALSE, val |-> v]

Digits == <<"0", "1", "2", "3", "4", "5", "6", "7", "8", "9">>

IsDigit(c) == \E d \in 1..10 : Digits[d] = c

DigitVal(c) == (CHOOSE d \in 1..10 : Digits[d] = c) - 1

\* Number.prototype.toString of a non-negative integer
RECURSIVE toString(_)
toString(i) ==
    IF i < 10 THEN <<Digits[i + 1]>>
    ELSE toString(i \div 10) \o <<Digits[(i % 10) + 1]>>

RECURSIVE SkipWhite(_)
SkipWhite(s) ==
    IF s # << >> /\ Head(s) = " " THEN SkipWhite(Tail(s)) ELSE s

RECURSIVE DigitsPrefix(_)
DigitsPrefix(s) ==
    IF s # << >> /\ IsDigit(Head(s))
    THEN <<Head(s)>> \o DigitsPrefix(Tail(s))
    ELSE << >>

RECURSIVE DigitsValue(_)
DigitsValue(ds) ==
    IF ds = << >> THEN 0
    ELSE DigitsValue(SubSeq(ds, 1, Len(ds) - 1)) * 10 + DigitVal(ds[Len(ds)])

\* parseInt(string): leading white space is skipped, an optional sign is
\* read, then the longest prefix of decimal digits; NaN when there is none
parseInt(s) ==
    LET t   == SkipWhite(s)
        neg == t # << >> /\ Head(t) = "-"
        u   == IF t # << >> /\ Head(t) \in {"-", "+"} THEN Tail(t) ELSE t
        ds  == DigitsPrefix(u)
    IN  IF ds = << >> THEN NaN
        ELSE Num(IF neg THEN 0 - DigitsValue(ds) ELSE DigitsValue(ds))

\* the default step of `parseInt(...) || 1`
DefaultScrollBy == 1

\* `x || d` on a number: NaN and 0 are falsy
OrDefault(x, d) == IF x.nan \/ x.val = 0 THEN d ELSE x.val

\* ---------------------------------------------------------------- the page

\* values of the --scroll-by custom property; << >> is the empty string
\* getPropertyValue returns for a property that is not set
CssValues ==
    { << >>, <<"a">>, <<"0">>, <<"-", "1">>, <<" ", "2">>, <<"1", "p", "x">> }

Container == [children : 0..MaxSlides, scrollByCss : CssValues,
              parent : 1..MaxContainers]

RECURSIVE SumChildren(_)
SumChildren(p) ==
    IF p = << >> THEN 0 ELSE Head(p).children + SumChildren(Tail(p))

\* a page is its containers in document order; container j is a child of
\* parent element p[j].parent, and the parents are numbered in the order
\* of their first container
IsPage(p) ==
    /\ \A j \in 1..Len(p) :
          \/ p[j].parent = 1
          \/ \E m \in 1..(j - 1) : p[m].parent + 1 >= p[j].parent
    /\ Len(p) + SumChildren(p) <= MaxSlides + 1

\* the pages with a single container, for every value of --scroll-by
SinglePages == { p \in [1..1 -> Container] : IsPage(p) }

\* the pages with up to MaxContainers containers that leave --scroll-by unset
UnstyledPages ==
    UNION { { p \in [1..L -> Container] :
                /\ IsPage(p)
                /\ \A j \in 1..L : p[j].scrollByCss = << >> }
            : L \in 1..MaxContainers }

VARIABLES
    page,       \* the containers of the document
    snappers,   \* the ScrollSnapper instances pushed so far
    dotNavs,    \* per instance: the dots of its dot nav carrying --current
    last,       \* the handler that ran last and what it did
    callback    \* the oberverCallback that is running: its instance and the
                \* entries its loop has still to visit

vars == <<page, snappers, dotNavs, last, callback>>

\* no oberverCallback is running
Idle == [snapper |-> 0, entries |-> << >>]

\* --------------------------------------------------------------- elements

\* the list read without its bounds: any index yields an element
SlideAt_unchecked(k, n, i) == <<k, i>>

\* this.elements.slides[i]: a NodeList yields undefined outside 0..length-1
SlideAt(k, n, i) == IF i \in 0..(n - 1) THEN <<k, i>> ELSE Undefined

\* slide.dataset.index, written by initState
DataIndex(el) == toString(el[2])

\* --------------------------------------------------------------- handlers

\* what a handler did: whether it threw, the element it issued
\* scrollIntoView on and the element it passed to flashElement
Event(op, k, threw, scrolled, flashed) ==
    [op |-> op, snapper |-> k, threw |-> threw, scrolled |-> scrolled,
     flashed |-> flashed]

\* the instance `new ScrollSnapper({scrollContainer})` builds for container k
NewSnapper(k) ==
    LET n == page[k].children
    IN  [slides           |-> n,
         hasIntersected   |-> [i \in 0..(n - 1) |-> FALSE],
         state            |->
            [currentElement     |-> SlideAt(k, n, 0),
             isFirst            |-> FALSE,
             isLast             |-> FALSE,
             intersectingLength |-> 0,
             scrollBy           |->
                OrDefault(parseInt(page[k].scrollByCss), DefaultScrollBy)],
         previousDisabled |-> FALSE,
         nextDisabled     |-> FALSE]

InitOn(pages) ==
    /\ page \in pages
    /\ snappers = << >>
    /\ dotNavs = << >>
    /\ last = Event("load", 0, FALSE, Undefined, Undefined)
    /\ callback = Idle

\* the loop given up once a container without children has been met
Construct_stopAtEmpty ==
    /\ Len(snappers) < Len(page)
    /\ \A j \in 1..Len(snappers) : page[j].children > 0
    /\ LET k == Len(snappers) + 1
       IN  /\ snappers' = Append(snappers, NewSnapper(k))
           /\ dotNavs' = Append(dotNavs, {})
           /\ last' = Event("constructor", k, FALSE, Undefined, Undefined)
    /\ UNCHANGED <<page, callback>>

\* one iteration of the bootstrap loop
Construct ==
    /\ Len(snappers) < Len(page)
    /\ LET k == Len(snappers) + 1
       IN  /\ snappers' = Append(snappers, NewSnapper(k))
           /\ dotNavs' = Append(dotNavs, {})
           /\ last' = Event("constructor", k, FALSE, Undefined, Undefined)
    /\ UNCHANGED <<page, callback>>

\* find taken from the end of the list: the last intersecting slide
find_last(h, k, n) ==
    IF \E i \in 0..(n - 1) : h[i]
    THEN <<k, CHOOSE i \in 0..(n - 1) :
                  h[i] /\ \A j \in 0..(n - 1) : h[j] => j <= i>>
    ELSE Undefined

\* [...slides].find((slide) => slide.hasIntersected)
find(h, k, n) ==
    IF \E i \in 0..(n - 1) : h[i]
    THEN <<k, CHOOSE i \in 0..(n - 1) :
                  h[i] /\ \A j \in 0..(n - 1) : h[j] => i <= j>>
    ELSE Undefined

\* [...slides].filter((slide) => slide.hasIntersected).length
filterLength(h, n) == Cardinality({i \in 0..(n - 1) : h[i]})

\* the comparison made against '1', as if data-index were 1-based
IsFirst_oneBased(cur) == DataIndex(cur) = <<"1">>

\* currentElement.dataset.index === '0'
IsFirst(cur) == DataIndex(cur) = <<"0">>

\* the test that ignores how many slides intersect
IsLast_currentOnly(len, cur, n) == 1 + parseInt(DataIndex(cur)).val >= n

\* the test that leaves the index of the current slide out
IsLast_countOnly(len, cur, n) == len >= n

\* intersectingLength + parseInt(currentElement.dataset.index) >= slides.length
IsLast(len, cur, n) == len + parseInt(DataIndex(cur)).val >= n

\* synchronize without the bail: an undefined current element clears the
\* flags and enables both buttons
synchronize_clearing(sn, k) ==
    LET len == filterLength(sn.hasIntersected, sn.slides)
        cur == find(sn.hasIntersected, k, sn.slides)
    IN  IF cur = Undefined
        THEN [sn EXCEPT !.state.intersectingLength = len,
                        !.state.currentElement = cur,
                        !.state.isFirst = FALSE,
                        !.state.isLast = FALSE,
                        !.previousDisabled = FALSE,
                        !.nextDisabled = FALSE]
        ELSE [sn EXCEPT !.state.intersectingLength = len,
                        !.state.currentElement = cur,
                        !.state.isFirst = IsFirst(cur),
                        !.state.isLast = IsLast(len, cur, sn.slides),
                        !.previousDisabled = IsFirst(cur),
                        !.nextDisabled = IsLast(len, cur, sn.slides)]

\* synchronize that does not touch the buttons
synchronize_keepingButtons(sn, k) ==
    LET len == filterLength(sn.hasIntersected, sn.slides)
        cur == find(sn.hasIntersected, k, sn.slides)
    IN  IF cur = Undefined
        THEN [sn EXCEPT !.state.intersectingLength = len,
                        !.state.currentElement = cur]
        ELSE [sn EXCEPT !.state.intersectingLength = len,
                        !.state.currentElement = cur,
                        !.state.isFirst = IsFirst(cur),
                        !.state.isLast = IsLast(len, cur, sn.slides)]

\* synchronize, up to the call of updateDotNav: the instance it leaves
synchronize(sn, k) ==
    LET len == filterLength(sn.hasIntersected, sn.slides)
        cur == find(sn.hasIntersected, k, sn.slides)
    IN  IF cur = Undefined
        THEN [sn EXCEPT !.state.intersectingLength = len,
                        !.state.currentElement = cur]
        ELSE [sn EXCEPT !.state.intersectingLength = len,
                        !.state.currentElement = cur,
                        !.state.isFirst = IsFirst(cur),
                        !.state.isLast = IsLast(len, cur, sn.slides),
                        !.previousDisabled = IsFirst(cur),
                        !.nextDisabled = IsLast(len, cur, sn.slides)]

\* scrollContainer.parentElement.querySelector('.snap-slider__dot-nav'):
\* the first dot nav, in document order, below the parent of container k
ParentDotNav(k) ==
    CHOOSE j \in 1..Len(page) :
        /\ page[j].parent = page[k].parent
        /\ \A m \in 1..Len(page) : page[m].parent = page[k].parent => j <= m

\* updateDotNav of instance k: --current is removed from every dot of the
\* dot nav found and added to its dot whose data-index is that of cur
updateDotNav(navs, k, cur) ==
    LET j == ParentDotNav(k)
    IN  [navs EXCEPT ![j] =
            {i \in 0..(page[j].children - 1) : toString(i) = DataIndex(cur)}]

Entry(k) ==
    [target : {<<k, i>> : i \in 0..(page[k].children - 1)},
     isIntersecting : BOOLEAN]

Batches(k) == UNION { [1..L -> Entry(k)] : L \in 1..MaxBatch }

\* the flag of the target flipped instead of set
ApplyEntry_toggling(h, entry) ==
    [i \in DOMAIN h |-> IF i = entry.target[2] THEN ~h[i] ELSE h[i]]

\* one iteration of the loop of oberverCallback: the slide that is
\* entry.target gets hasIntersected = entry.isIntersecting
ApplyEntry(h, entry) ==
    [i \in DOMAIN h |->
        IF i = entry.target[2] THEN entry.isIntersecting ELSE h[i]]

\* the loop left after its first iteration
ApplyEntries_firstOnly(h, entries) ==
    IF entries = << >> THEN h ELSE ApplyEntry(h, Head(entries))

\* the loop of oberverCallback over the entries
RECURSIVE ApplyEntries(_, _)
ApplyEntries(h, entries) ==
    IF entries = << >> THEN h
    ELSE ApplyEntries(ApplyEntry(h, Head(entries)), Tail(entries))

\* the bootstrap loop has run to its end and no handler is running
Loaded == Len(snappers) = Len(page) /\ callback = Idle

\* the instances and dot navs with the flags of instance k set to h
WithFlags(sns, navs, k, h) ==
    [snappers |-> [sns EXCEPT ![k].hasIntersected = h], dotNavs |-> navs]

\* this.synchronize() of instance k, updateDotNav included: the instances
\* and the dot navs it leaves
Synchronized(sns, navs, k) ==
    LET sn  == synchronize(sns[k], k)
        cur == sn.state.currentElement
    IN  [snappers |-> [sns EXCEPT ![k] = sn],
         dotNavs  |-> IF cur = Undefined THEN navs
                      ELSE updateDotNav(navs, k, cur)]

\* oberverCallback(entries) of instance k run to its end on (sns, navs)
CallbackResult(sns, navs, k, entries) ==
    LET w == WithFlags(sns, navs, k,
                       ApplyEntries(sns[k].hasIntersected, entries))
    IN  Synchronized(w.snappers, w.dotNavs, k)

\* the IntersectionObserver of instance k delivers a batch of entries; the
\* --intersecting class toggled on entry.target always equals the flag
\* written in the same iteration and is not kept apart
oberverCallback(k, entries) ==
    /\ Loaded
    /\ LET r == CallbackResult(snappers, dotNavs, k, entries)
       IN  /\ snappers' = r.snappers
           /\ dotNavs' = r.dotNavs
    /\ last' = Event("oberverCallback", k, FALSE, Undefined, Undefined)
    /\ UNCHANGED <<page, callback>>

\* oberverCallback statement by statement: the observer of instance k
\* calls it with a batch of entries
Deliver(k, entries) ==
    /\ Loaded
    /\ callback' = [snapper |-> k, entries |-> entries]
    /\ UNCHANGED <<page, snappers, dotNavs, last>>

\* an iteration of the loop that also calls this.synchronize()
LoopEntry_synchronizing ==
    /\ callback.entries # << >>
    /\ LET k == callback.snapper
           w == WithFlags(snappers, dotNavs, k,
                    ApplyEntry(snappers[k].hasIntersected,
                               Head(callback.entries)))
           r == Synchronized(w.snappers, w.dotNavs, k)
       IN  /\ snappers' = r.snappers
           /\ dotNavs' = r.dotNavs
    /\ callback' = [callback EXCEPT !.entries = Tail(callback.entries)]
    /\ UNCHANGED <<page, last>>

\* one iteration of `for (let entry of entries)`
LoopEntry ==
    /\ callback.entries # << >>
    /\ LET k == callback.snapper
       IN  snappers' = WithFlags(snappers, dotNavs, k,
                          ApplyEntry(snappers[k].hasIntersected,
                                     Head(callback.entries))).snappers
    /\ callback' = [callback EXCEPT !.entries = Tail(callback.entries)]
    /\ UNCHANGED <<page, dotNavs, last>>

\* the loop is over: this.synchronize(), and the callback returns
SynchronizeStep ==
    /\ callback.snapper # 0
    /\ callback.entries = << >>
    /\ LET r == Synchronized(snappers, dotNavs, callback.snapper)
       IN  /\ snappers' = r.snappers
           /\ dotNavs' = r.dotNavs
    /\ last' = Event("oberverCallback", callback.snapper, FALSE,
                     Undefined, Undefined)
    /\ callback' = Idle
    /\ UNCHANGED page

\* goToElement that also makes the element the current one
goToElement_makingCurrent(op, k, element) ==
    /\ last' = Event(op, k, FALSE, element, element)
    /\ snappers' = [snappers EXCEPT ![k].state.currentElement = element]
    /\ UNCHANGED <<page, dotNavs, callback>>

\* goToElement(element): flashElement(element), then scrollIntoView on it
goToElement(op, k, element) ==
    /\ last' = Event(op, k, FALSE, element, element)
    /\ UNCHANGED <<page, snappers, dotNavs, callback>>

\* a handler that returns early, or throws: nothing else changes
Nothing(op, k, threw) ==
    /\ last' = Event(op, k, threw, Undefined, Undefined)
    /\ UNCHANGED <<page, snappers, dotNavs, callback>>

nextIndex(cur, scrollBy) == parseInt(DataIndex(cur)).val + scrollBy

prevIndex(cur, scrollBy) == parseInt(DataIndex(cur)).val - scrollBy

\* goToNext, the click listener of the next button and a public method;
\* reading dataset of an undefined currentElement throws a TypeError
GoToNext(k) ==
    /\ Loaded
    /\ LET cur == snappers[k].state.currentElement
           nextElement ==
               SlideAt(k, snappers[k].slides,
                       nextIndex(cur, snappers[k].state.scrollBy))
       IN  IF cur = Undefined THEN Nothing("goToNext", k, TRUE)
           ELSE IF nextElement = Undefined THEN Nothing("goToNext", k, FALSE)
           ELSE goToElement("goToNext", k, nextElement)

\* goToPrevious, the click listener of the previous button
GoToPrevious(k) ==
    /\ Loaded
    /\ LET cur == snappers[k].state.currentElement
           idx == prevIndex(cur, snappers[k].state.scrollBy)
           prevElement ==
               SlideAt(k, snappers[k].slides, IF idx < 0 THEN 0 ELSE idx)
       IN  IF cur = Undefined THEN Nothing("goToPrevious", k, TRUE)
           ELSE IF prevElement = Undefined
                THEN Nothing("goToPrevious", k, FALSE)
           ELSE goToElement("goToPrevious", k, prevElement)

\* the click listener of the dot of slide i
DotClick(k, i) ==
    /\ Loaded
    /\ goToElement("dotClick", k, <<k, i>>)

Next ==
    \/ Construct
    \/ \E k \in 1..Len(snappers) :
          \E entries \in Batches(k) : oberverCallback(k, entries)
    \/ \E k \in 1..Len(snappers) : GoToNext(k)
    \/ \E k \in 1..Len(snappers) : GoToPrevious(k)
    \/ \E k \in 1..Len(snappers) :
          \E i \in 0..(snappers[k].slides - 1) : DotClick(k, i)

\* one container, every --scroll-by value
Init == InitOn(SinglePages)

Spec == Init /\ [][Next]_vars

\* the pages with a single container that leave --scroll-by unset
PlainPages == { p \in SinglePages : p[1].scrollByCss = << >> }

NextSteps ==
    \/ Construct
    \/ \E k \in 1..Len(snappers) :
          \E entries \in Batches(k) : Deliver(k, entries)
    \/ LoopEntry
    \/ SynchronizeStep
    \/ \E k \in 1..Len(snappers) : GoToNext(k)
    \/ \E k \in 1..Len(snappers) : GoToPrevious(k)
    \/ \E k \in 1..Len(snappers) :
          \E i \in 0..(snappers[k].slides - 1) : DotClick(k, i)

\* one container, --scroll-by unset, oberverCallback statement by statement
InitSteps == InitOn(PlainPages)

SpecSteps == InitSteps /\ [][NextSteps]_vars

\* several containers, --scroll-by unset
InitPage == InitOn(UnstyledPages)

SpecPage == InitPage /\ [][Next]_vars

\* ------------------------------------------------------------------ claims

\* the indices of the slides of instance k whose flag is set
Visible(k) ==
    {i \in 0..(snappers[k].slides - 1) : snappers[k].hasIntersected[i]}

\* the last handler was a visibility batch of instance k
AfterBatch(k) == last.op = "oberverCallback" /\ last.snapper = k

\* C1: after any visibility batch, currentElement is the visible slide of
\* lowest index, and undefined when no slide is visible
C1_CurrentIsLowestVisible ==
    \A k \in 1..Len(snappers) :
        AfterBatch(k) =>
            LET cur == snappers[k].state.currentElement
            IN  IF Visible(k) = {} THEN cur = Undefined
                ELSE /\ cur # Undefined
                     /\ cur[1] = k
                     /\ cur[2] \in Visible(k)
                     /\ \A j \in Visible(k) : cur[2] <= j

\* C1 witness: a batch left slides 1 and 2 visible and slide 0 not
C1_Witness ==
    /\ AfterBatch(1)
    /\ Visible(1) = {1, 2}
    /\ snappers[1].state.currentElement = <<1, 1>>

\* C2: after a batch that leaves a slide visible, intersectingLength is the
\* number of visible slides, isFirst is (current index = 0) and isLast is
\* (intersectingLength + current index >= number of slides)
C2_DerivedFlags ==
    \A k \in 1..Len(snappers) :
        (AfterBatch(k) /\ Visible(k) # {}) =>
            LET st == snappers[k].state
                c  == st.currentElement[2]
            IN  /\ st.intersectingLength = Cardinality(Visible(k))
                /\ st.isFirst = (c = 0)
                /\ st.isLast = (Cardinality(Visible(k)) + c >= snappers[k].slides)
                /\ (\E j \in 0..(snappers[k].slides - 1) : Visible(k) = {j}) =>
                      /\ st.intersectingLength = 1
                      /\ Visible(k) = {c}
                      /\ st.isLast = (1 + c >= snappers[k].slides)

\* C2 witness: three slides, slides 1 and 2 visible at once, isLast holds
C2_Witness ==
    /\ AfterBatch(1)
    /\ snappers[1].slides = 3
    /\ Visible(1) = {1, 2}
    /\ snappers[1].state.intersectingLength = 2
    /\ snappers[1].state.isLast
    /\ ~snappers[1].state.isFirst

\* C3 as stated: in every state of every instance, isFirst holds iff the
\* current element is slide 0
C3_Original ==
    \A k \in 1..Len(snappers) :
        snappers[k].state.isFirst <=> snappers[k].state.currentElement = <<k, 0>>

\* C3 amended: in every state in which a slide of the instance is visible,
\* isFirst holds iff the current element is slide 0
C3_Amended ==
    \A k \in 1..Len(snappers) :
        Visible(k) # {} =>
            (snappers[k].state.isFirst <=>
                snappers[k].state.currentElement = <<k, 0>>)

\* C3 witness: slide 0 is visible and isFirst holds after a navigation
C3_Witness ==
    /\ last.op = "goToNext"
    /\ 0 \in Visible(1)
    /\ snappers[1].state.isFirst
    /\ snappers[1].state.currentElement = <<1, 0>>

\* the last handler was the navigation op of instance k and returned
Navigated(op, k) == last.op = op /\ last.snapper = k /\ ~last.threw

\* C4: goToNext with current index c and step s scrolls to (and pulses)
\* slide c + s exactly when c + s < n, and does nothing otherwise
C4_NextTarget ==
    \A k \in 1..Len(snappers) :
        Navigated("goToNext", k) =>
            LET c == snappers[k].state.currentElement[2]
                s == snappers[k].state.scrollBy
            IN  IF c + s < snappers[k].slides
                THEN last.scrolled = <<k, c + s>> /\ last.flashed = <<k, c + s>>
                ELSE last.scrolled = Undefined /\ last.flashed = Undefined

\* C5: goToPrevious with current index c and step s always scrolls to (and
\* pulses) slide max(0, c - s)
C5_PreviousTarget ==
    \A k \in 1..Len(snappers) :
        Navigated("goToPrevious", k) =>
            LET c == snappers[k].state.currentElement[2]
                s == snappers[k].state.scrollBy
                m == IF c - s < 0 THEN 0 ELSE c - s
            IN  last.scrolled = <<k, m>> /\ last.flashed = <<k, m>>

\* C6: goToNext and goToPrevious never raise a fault
C6_NavigationNeverThrows ==
    last.op \in {"goToNext", "goToPrevious"} => ~last.threw

\* C7: a batch that leaves no slide visible raises no fault and changes
\* nothing but the flags, intersectingLength (to 0) and currentElement (to
\* undefined): isFirst, isLast, both buttons and every dot nav stay
C7_NoneVisibleFrame ==
    [][ \A k \in 1..Len(snappers) :
          (last'.op = "oberverCallback" /\ last'.snapper = k
             /\ \A i \in 0..(snappers[k].slides - 1) :
                    ~snappers'[k].hasIntersected[i])
          => /\ ~last'.threw
             /\ snappers'[k].state.isFirst = snappers[k].state.isFirst
             /\ snappers'[k].state.isLast = snappers[k].state.isLast
             /\ snappers'[k].previousDisabled = snappers[k].previousDisabled
             /\ snappers'[k].nextDisabled = snappers[k].nextDisabled
             /\ dotNavs' = dotNavs
             /\ snappers'[k].state.intersectingLength = 0
             /\ snappers'[k].state.currentElement = Undefined
             /\ snappers'[k].state.scrollBy = snappers[k].state.scrollBy
             /\ snappers'[k].slides = snappers[k].slides
             /\ \A j \in 1..Len(snappers) : j # k => snappers'[j] = snappers[j]
             /\ Len(snappers') = Len(snappers)
             /\ page' = page ]_vars

\* C7 witness: a batch left no slide visible while isFirst, the disabled
\* previous button and the highlight of dot 0 were kept
C7_Witness ==
    /\ AfterBatch(1)
    /\ Visible(1) = {}
    /\ snappers[1].slides >= 2
    /\ snappers[1].state.currentElement = Undefined
    /\ snappers[1].state.intersectingLength = 0
    /\ snappers[1].state.isFirst
    /\ snappers[1].previousDisabled
    /\ dotNavs[1] = {0}

C9_PositiveStep ==
    \A k \in 1..Len(snappers) :
        /\ snappers[k].state.scrollBy >= 1
        /\ page[k].scrollByCss \in {<< >>, <<"a">>} =>
              snappers[k].state.scrollBy = 1

\* C10: a scroll issued by goToNext or goToPrevious targets a slide of the
\* same instance with an index in 0..n-1
C10_TargetInRange ==
    (last.op \in {"goToNext", "goToPrevious"} /\ last.scrolled # Undefined) =>
        /\ last.scrolled[1] = last.snapper
        /\ last.scrolled[2] \in 0..(snappers[last.snapper].slides - 1)

\* C10 witness: goToPrevious from slide 1 with step 2 was clamped to slide 0
C10_Witness ==
    /\ Navigated("goToPrevious", 1)
    /\ snappers[1].state.currentElement = <<1, 1>>
    /\ snappers[1].state.scrollBy = 2
    /\ last.scrolled = <<1, 0>>

\* the NavigationState and the button states of an instance: everything
\* of it that synchronize writes
NavUI(sn) ==
    [state |-> sn.state, previousDisabled |-> sn.previousDisabled,
     nextDisabled |-> sn.nextDisabled]

\* C11: within one batch every entry is applied to the flags before the
\* state is recomputed and before any button or dot nav is updated, and the
\* recomputation runs once, as the last step of the callback: a step of a
\* running callback with entries left changes one flag and nothing else,
\* the NavigationState, the buttons and the dot navs change only in the
\* step that ends the callback, and there they are computed from the flags
\* with every entry applied
C11_BatchAppliedBeforeRecompute ==
    [][ /\ callback.entries # << >> =>
              /\ callback'.snapper = callback.snapper
              /\ callback'.entries = Tail(callback.entries)
              /\ last' = last
              /\ snappers'[callback.snapper].hasIntersected =
                    ApplyEntry(snappers[callback.snapper].hasIntersected,
                               Head(callback.entries))
        /\ (/\ Len(snappers') = Len(snappers)
            /\ \/ dotNavs' # dotNavs
               \/ \E k \in 1..Len(snappers) :
                     NavUI(snappers'[k]) # NavUI(snappers[k]))
           => /\ callback.snapper # 0
              /\ callback.entries = << >>
              /\ callback' = Idle
              /\ last'.op = "oberverCallback"
              /\ last'.snapper = callback.snapper
              /\ snappers'[callback.snapper].hasIntersected =
                    snappers[callback.snapper].hasIntersected
              /\ snappers'[callback.snapper].state.currentElement =
                    find(snappers[callback.snapper].hasIntersected,
                         callback.snapper, snappers[callback.snapper].slides)
        /\ (callback.snapper # 0 /\ callback.entries = << >>) =>
              callback' = Idle ]_vars

\* C11 witness: a callback is running with one entry left; the entry
\* applied so far made slide 1 the only visible one while currentElement,
\* isFirst and the dot nav still show slide 0
C11_Witness ==
    /\ callback.snapper = 1
    /\ Len(callback.entries) = 1
    /\ Visible(1) = {1}
    /\ snappers[1].state.currentElement = <<1, 0>>
    /\ snappers[1].state.isFirst
    /\ dotNavs[1] = {0}

\* C12: in every state the previous button is disabled iff isFirst and the
\* next button is disabled iff isLast, and a recomputation with a current
\* element sets both from the flags it has just computed
C12_ButtonsFollowFlags ==
    \A k \in 1..Len(snappers) :
        /\ snappers[k].previousDisabled = snappers[k].state.isFirst
        /\ snappers[k].nextDisabled = snappers[k].state.isLast
        /\ (AfterBatch(k) /\ Visible(k) # {}) =>
              LET c == snappers[k].state.currentElement[2]
              IN  /\ snappers[k].previousDisabled = (c = 0)
                  /\ snappers[k].nextDisabled =
                        (Cardinality(Visible(k)) + c >= snappers[k].slides)

\* C12 witness: a batch left only slide 0 of several visible: previous is
\* disabled and next is not
C12_Witness ==
    /\ AfterBatch(1)
    /\ snappers[1].slides >= 2
    /\ Visible(1) = {0}
    /\ snappers[1].previousDisabled
    /\ ~snappers[1].nextDisabled

\* C13: after a recomputation with a current element exactly the dot of the
\* instance's own dot nav with the current index carries --current, and no
\* dot nav ever has two such dots
C13_OwnDotHighlighted ==
    \A k \in 1..Len(snappers) :
        /\ Cardinality(dotNavs[k]) <= 1
        /\ (AfterBatch(k) /\ Visible(k) # {}) =>
              dotNavs[k] = {snappers[k].state.currentElement[2]}

\* the batches that do not name a slide twice with different values
Agreeing(entries) ==
    \A a, b \in 1..Len(entries) :
        entries[a].target = entries[b].target =>
            entries[a].isIntersecting = entries[b].isIntersecting

\* C14: from every state, a batch applied a second time right after the
\* first leaves the flags, the NavigationState, the buttons and the dot
\* navs as the first application left them
C14_BatchIdempotent ==
    Loaded =>
        \A k \in 1..Len(snappers) :
            \A entries \in Batches(k) :
                LET r1 == CallbackResult(snappers, dotNavs, k, entries)
                    r2 == CallbackResult(r1.snappers, r1.dotNavs, k, entries)
                IN  r2 = r1

\* C14 witness: the state is what a batch naming slide 0 twice, first as
\* visible and then as not, leaves, and the batch would change nothing
C14_Witness ==
    /\ AfterBatch(1)
    /\ snappers[1].slides >= 2
    /\ 0 \notin Visible(1)
    /\ LET entries == <<[target |-> <<1, 0>>, isIntersecting |-> TRUE],
                       [target |-> <<1, 0>>, isIntersecting |-> FALSE]>>
       IN  CallbackResult(snappers, dotNavs, 1, entries) =
               [snappers |-> snappers, dotNavs |-> dotNavs]

\* C15: the flags are false after construction and a flag changes only in
\* the loop of a batch of its instance, at the entry that names the slide
\* (every other flag is left as it was); goToNext, goToPrevious and a dot
\* click leave every instance (flags, NavigationState, buttons) and every
\* dot nav as they were
C15_FlagsOnlyByBatch ==
    [][ /\ (/\ callback' = callback
            /\ last'.op \in {"goToNext", "goToPrevious", "dotClick"})
           => snappers' = snappers /\ dotNavs' = dotNavs
        /\ Len(snappers') > Len(snappers) =>
              \A i \in 0..(snappers'[last'.snapper].slides - 1) :
                  ~snappers'[last'.snapper].hasIntersected[i]
        /\ \A k \in 1..Len(snappers) :
              \A i \in 0..(snappers[k].slides - 1) :
                  snappers'[k].hasIntersected[i] # snappers[k].hasIntersected[i]
                  => /\ callback.snapper = k
                     /\ callback.entries # << >>
                     /\ Head(callback.entries).target = <<k, i>> ]_vars

\* C15 witness: a dot click scrolled to slide 2 while slide 0 stays the
\* only visible and the current one
C15_Witness ==
    /\ last.op = "dotClick"
    /\ last.scrolled = <<1, 2>>
    /\ Visible(1) = {0}
    /\ snappers[1].state.currentElement = <<1, 0>>
    /\ snappers[1].state.isFirst

\* C16: whenever there is a current element, isLast holds iff every slide
\* from the current one to the last is visible, and intersectingLength
\* plus the current index does not exceed the number of slides
C16_LastIffTailVisible ==
    \A k \in 1..Len(snappers) :
        snappers[k].state.currentElement # Undefined =>
            LET c == snappers[k].state.currentElement[2]
            IN  /\ snappers[k].state.isLast <=>
                      \A i \in c..(snappers[k].slides - 1) :
                          snappers[k].hasIntersected[i]
                /\ snappers[k].state.intersectingLength + c
                      <= snappers[k].slides

\* C16 witness: of three slides the first and the last are visible, the
\* middle one is not, and isLast does not hold
C16_Witness ==
    /\ AfterBatch(1)
    /\ snappers[1].slides = 3
    /\ Visible(1) = {0, 2}
    /\ snappers[1].state.currentElement = <<1, 0>>
    /\ ~snappers[1].state.isLast

\* C17: for a step s >= 1 and a current index c, whenever c + s >= n (so
\* that goToNext does nothing) the next button is disabled
C17_NoOpNextIsDisabled ==
    \A k \in 1..Len(snappers) :
        (/\ snappers[k].state.scrollBy >= 1
         /\ snappers[k].state.currentElement # Undefined
         /\ snappers[k].state.currentElement[2] + snappers[k].state.scrollBy
               >= snappers[k].slides)
        => snappers[k].nextDisabled

\* the permutations of 1..n
Perms(n) == {f \in [1..n -> 1..n] : \A a, b \in 1..n : f[a] = f[b] => a = b}

Permuted(entries, f) == [a \in 1..Len(entries) |-> entries[f[a]]]

\* C18 as stated: from every state, every permutation of every batch leaves
\* the same flags, NavigationState, buttons and dot navs
C18_Original ==
    Loaded =>
        \A k \in 1..Len(snappers) :
            \A entries \in Batches(k) :
                \A f \in Perms(Len(entries)) :
                    CallbackResult(snappers, dotNavs, k, Permuted(entries, f))
                        = CallbackResult(snappers, dotNavs, k, entries)

\* C18 amended: from every state, every permutation of a batch that does
\* not name a slide twice with different values leaves the same flags,
\* NavigationState, buttons and dot navs
C18_Amended ==
    Loaded =>
        \A k \in 1..Len(snappers) :
            \A entries \in Batches(k) :
                Agreeing(entries) =>
                    \A f \in Perms(Len(entries)) :
                        CallbackResult(snappers, dotNavs, k,
                                       Permuted(entries, f))
                            = CallbackResult(snappers, dotNavs, k, entries)

\* C18 witness: the state is what the batch (slide 0 not visible, slide 1
\* visible) leaves in either order, and it differs from what each entry
\* alone would leave
C18_Witness ==
    /\ AfterBatch(1)
    /\ snappers[1].slides >= 2
    /\ LET e0 == [target |-> <<1, 0>>, isIntersecting |-> FALSE]
           e1 == [target |-> <<1, 1>>, isIntersecting |-> TRUE]
           here == [snappers |-> snappers, dotNavs |-> dotNavs]
       IN  /\ CallbackResult(snappers, dotNavs, 1, <<e0, e1>>) = here
           /\ CallbackResult(snappers, dotNavs, 1, <<e1, e0>>) = here
           /\ Visible(1) = {1}

\* C19: a batch or a navigation of one instance changes nothing of any
\* other instance: not its flags, NavigationState or buttons, nor its dot
\* nav
C19_Isolated ==
    [][ \A k \in 1..Len(snappers) :
          (/\ last'.snapper = k
           /\ last'.op \in {"oberverCallback", "goToNext", "goToPrevious",
                            "dotClick"})
          => \A j \in 1..Len(snappers) :
                j # k => /\ snappers'[j] = snappers[j]
                         /\ dotNavs'[j] = dotNavs[j] ]_vars

====
